---- MODULE Spec2Model ----
(***************************************************************************)
(* Model of Wang.py: the fingerprint extractor (_bucket_winners), the      *)
(* fingerprint index (_hash), the per-file fingerprinter                   *)
(* (_file_fingerprint) and the matcher (Wang.match) with its worker pool.  *)
(*                                                                         *)
(* Python indices are 0-based; a Python list l is the TLA+ sequence whose  *)
(* element l[i] is at position i + 1.  Real numbers (durations, scores)    *)
(* are exact rationals <<numerator, denominator>> with a positive          *)
(* denominator.                                                            *)
(***************************************************************************)
EXTENDS Integers, Sequences, FiniteSets, TLC

(***************************************************************************)
(* Program constants                                                       *)
(***************************************************************************)
BUCKET_SIZE == 20
BUCKETS == 4
UPPER_LIMIT == BUCKET_SIZE * BUCKETS
NORMAL_CHUNK_SIZE == 1024
NORMAL_SAMPLE_RATE == 44100
SCORE_THRESHOLD == 0

(***************************************************************************)
(* Bounds of the model                                                     *)
(***************************************************************************)
\* largest total sample count of a modelled file
MaxSamples == 3
\* largest processor count cpu_count() reports
MaxCpus == 2
\* sample rates 1..MaxLowRate are tried by the chunk-size specification
MaxLowRate == 120
\* spectra of the extractor specification have UPPER_LIMIT..UPPER_LIMIT+MaxExtraBins bins
MaxExtraBins == 1

None == "None"

(***************************************************************************)
(* Rationals                                                               *)
(***************************************************************************)
RatLess(a, b) == a[1] * b[2] < b[1] * a[2]
RatIsZero(a) == a[1] = 0

(***************************************************************************)
(* _bucket_winners                                                         *)
(***************************************************************************)
\* Python slice l[start:end]; the end is clamped to the length of the list
Slice(l, start, end) ==
    SubSeq(l, start + 1, IF end < Len(l) THEN end ELSE Len(l))

\* a scan that keeps the last of several equal maxima
RECURSIVE ArgMaxScanLast(_, _, _)
ArgMaxScanLast(vals, i, best) ==
    IF i >= Len(vals) THEN best
    ELSE ArgMaxScanLast(vals, i + 1, IF vals[i + 1] >= vals[best + 1] THEN i ELSE best)

\* numpy argmax as a left-to-right scan: i is the next 0-based index to
\* look at, best the index of the largest value seen so far; a later
\* value replaces it only when strictly larger
RECURSIVE ArgMaxScan(_, _, _)
ArgMaxScan(vals, i, best) ==
    IF i >= Len(vals) THEN best
    ELSE ArgMaxScan(vals, i + 1, IF vals[i + 1] > vals[best + 1] THEN i ELSE best)

argmax(vals) == ArgMaxScan(vals, 1, 0)

\* the winner without the bucket's start index added back
BucketWinnerRaw(spectrum, bucket) ==
    argmax(Slice(spectrum, bucket * BUCKET_SIZE, (bucket + 1) * BUCKET_SIZE))

\* one entry of max_index: the winner of one bucket of one chunk
BucketWinner(spectrum, bucket) ==
    LET start_index == bucket * BUCKET_SIZE
        end_index == (bucket + 1) * BUCKET_SIZE
        bucket_vals == Slice(spectrum, start_index, end_index)
        raw_max_index == argmax(bucket_vals)
    IN  raw_max_index + start_index

_bucket_winners(freq_chunks) ==
    [chunk \in 1..Len(freq_chunks) |->
        [bucket \in 1..BUCKETS |-> BucketWinner(freq_chunks[chunk], bucket - 1)]]

(***************************************************************************)
(* _hash                                                                   *)
(***************************************************************************)
\* hashes[hash] = [chunk]: the last chunk replaces the earlier ones
HashAssign(hashes, hash, chunk) ==
    IF hash \in DOMAIN hashes
    THEN [hashes EXCEPT ![hash] = <<chunk>>]
    ELSE hashes @@ (hash :> <<chunk>>)

\* hashes[hash].append(chunk) on a defaultdict(list)
HashAppend(hashes, hash, chunk) ==
    IF hash \in DOMAIN hashes
    THEN [hashes EXCEPT ![hash] = Append(@, chunk)]
    ELSE hashes @@ (hash :> <<chunk>>)

\* the loop of _hash from chunk number `chunk` on
RECURSIVE HashLoop(_, _, _)
HashLoop(max_index, chunk, hashes) ==
    IF chunk >= Len(max_index) THEN hashes
    ELSE HashLoop(max_index, chunk + 1,
                  HashAppend(hashes, max_index[chunk + 1], chunk))

EmptyDict == [k \in {} |-> 0]

_hash(max_index) == HashLoop(max_index, 0, EmptyDict)

(***************************************************************************)
(* _file_fingerprint: chunk size                                           *)
(***************************************************************************)
\* the quotient rounded to the nearest integer instead of truncated
ChunkSizeRounded(sample_rate) ==
    (2 * NORMAL_CHUNK_SIZE * sample_rate + NORMAL_SAMPLE_RATE)
        \div (2 * NORMAL_SAMPLE_RATE)

\* int(NORMAL_CHUNK_SIZE / (NORMAL_SAMPLE_RATE / sample_rate)): int()
\* truncates, and the quotient is positive, so this is the floor of
\* NORMAL_CHUNK_SIZE * sample_rate / NORMAL_SAMPLE_RATE
ChunkSize(sample_rate) ==
    (NORMAL_CHUNK_SIZE * sample_rate) \div NORMAL_SAMPLE_RATE

(***************************************************************************)
(* The external collaborators: sample source (InputFile) and spectrum      *)
(* provider (FFT)                                                          *)
(***************************************************************************)
\* a spectrum of UPPER_LIMIT bins whose two loudest bins of every bucket
\* are p and p + 1, equally loud; the other bins are quieter
Tone(p) ==
    [i \in 1..UPPER_LIMIT |->
        IF (i - 1) % BUCKET_SIZE \in {p, p + 1} THEN 2 ELSE 1]

SpectrumKinds == {Tone(3), Tone(7)}

\* sample rates of the modelled files: the lowest rate at which a chunk
\* is one sample long, and one at which it is two samples long
SampleRates == {44, 100}

\* all sequences over S of length n
RECURSIVE SeqsOfLen(_, _)
SeqsOfLen(S, n) ==
    IF n = 0 THEN {<<>>}
    ELSE {Append(s, x) : s \in SeqsOfLen(S, n - 1), x \in S}

\* the number of spectra the provider may produce for total_samples
\* samples cut into chunks of chunk_size samples: the trailing partial
\* chunk is dropped or kept
SeriesLengths(total_samples, chunk_size) ==
    IF chunk_size < 1 THEN {0}
    ELSE {total_samples \div chunk_size,
          (total_samples + chunk_size - 1) \div chunk_size}

\* what is behind a file name: an unreadable file, or a sample rate, a
\* sample count and the spectra the provider computes from the samples
UnreadableFile ==
    [readable |-> FALSE, sample_rate |-> 44, total_samples |-> 0, series |-> <<>>]

ReadableFiles ==
    UNION {
        UNION {
            UNION {
                {[readable |-> TRUE, sample_rate |-> r, total_samples |-> t, series |-> s] :
                    s \in SeqsOfLen(SpectrumKinds, n)}
                : n \in SeriesLengths(t, ChunkSize(r))}
            : t \in 0..MaxSamples}
        : r \in SampleRates}

Files == ReadableFiles \cup {UnreadableFile}

\* an outcome of a call: a returned value or a raised exception
Returned(v) == [raised |-> None, value |-> v]
Raised(e) == [raised |-> e, value |-> None]

\* FFT(file, chunk_size).series()
FFT_series(file, chunk_size) ==
    IF chunk_size < 1 THEN Raised("InvalidInputError")
    ELSE Returned(file.series)

\* file.get_total_samples() / file.get_sample_rate(): the rate is a
\* positive real, so this is a real quotient
FileLen(file) == <<file.total_samples, file.sample_rate>>

(***************************************************************************)
(* _file_fingerprint                                                       *)
(***************************************************************************)
_file_fingerprint(file) ==
    IF ~file.readable THEN Raised("ResourceError")
    ELSE
        LET series == FFT_series(file, ChunkSize(file.sample_rate))
        IN  IF series.raised # None THEN series
            ELSE
                LET file_len == FileLen(file)
                    winners == _bucket_winners(series.value)
                    hash == _hash(winners)
                IN  Returned(<<file_len, hash>>)

(***************************************************************************)
(* Wang.match: the offset histogram and the score                          *)
(***************************************************************************)
\* offsets[offset] += 1 on a defaultdict(lambda: 0)
Incr(offsets, offset) ==
    IF offset \in DOMAIN offsets
    THEN [offsets EXCEPT ![offset] = @ + 1]
    ELSE offsets @@ (offset :> 1)

\* pairing the two lists element by element instead of taking the product
RECURSIVE ZipLoop(_, _, _, _)
ZipLoop(l1, l2, n, offsets) ==
    IF n >= Len(l1) \/ n >= Len(l2) THEN offsets
    ELSE ZipLoop(l1, l2, n + 1, Incr(offsets, l1[n + 1] - l2[n + 1]))

\* the pairs of itertools.product(l1, l2) from pair number n on, in the
\* order product yields them
RECURSIVE ProductLoop(_, _, _, _)
ProductLoop(l1, l2, n, offsets) ==
    IF n >= Len(l1) * Len(l2) THEN offsets
    ELSE
        LET c1 == l1[(n \div Len(l2)) + 1]
            c2 == l2[(n % Len(l2)) + 1]
            offset == c1 - c2
        IN  ProductLoop(l1, l2, n + 1, Incr(offsets, offset))

\* the loop over the keys of hash1 that are left
RECURSIVE KeysLoop(_, _, _, _)
KeysLoop(keys, hash1, hash2, offsets) ==
    IF keys = {} THEN offsets
    ELSE
        LET h1 == CHOOSE k \in keys : TRUE
        IN  KeysLoop(keys \ {h1}, hash1, hash2,
                     IF h1 \in DOMAIN hash2
                     THEN ProductLoop(hash1[h1], hash2[h1], 0, offsets)
                     ELSE offsets)

Offsets(hash1, hash2) == KeysLoop(DOMAIN hash1, hash1, hash2, EmptyDict)

MaxValue(f) == CHOOSE m \in {f[k] : k \in DOMAIN f} : \A k \in DOMAIN f : f[k] <= m

\* max(offsets.viewvalues()), or 0 for an empty histogram
MaxOffset(offsets) ==
    IF Cardinality(DOMAIN offsets) # 0 THEN MaxValue(offsets) ELSE 0

\* the length of the first file, whichever is shorter
MinLenFirst(file1_len, file2_len) == file1_len

\* min(file1_len, file2_len)
MinLen(file1_len, file2_len) ==
    IF RatLess(file2_len, file1_len) THEN file2_len ELSE file1_len

\* max_offset / min_len
Divide(max_offset, min_len) ==
    IF RatIsZero(min_len) THEN Raised("ZeroDivisionError")
    ELSE Returned(<<max_offset * min_len[2], min_len[1]>>)

\* score >= SCORE_THRESHOLD
VerdictNotStrict(score) == score[1] >= SCORE_THRESHOLD * score[2]

\* score > SCORE_THRESHOLD
Verdict(score) == score[1] > SCORE_THRESHOLD * score[2]

(***************************************************************************)
(* State of one call of Wang.match                                          *)
(***************************************************************************)
VARIABLES
    filenames,    \* self.filenames: what is behind the two file names
    debug,        \* the debug argument
    pc,           \* where match is
    cpus,         \* the size of the pool
    pool,         \* "none", "open" or "closed"
    task,         \* per task of pool.map: "none", "queued", "running", "done", "failed"
    taskOut,      \* per task: the outcome of _file_fingerprint
    result1,      \* result1 of match
    result2,      \* result2 of match
    offsets,      \* the offset histogram
    max_offset,
    min_len,
    score,
    ret,          \* what match returned
    error,        \* the exception match raised
    freq_chunks,  \* extractor specification: the argument of _bucket_winners
    max_index,    \* extractor specification: its result
    sample_rate,  \* chunk-size specification: file.get_sample_rate()
    chunk_size    \* chunk-size specification: the chunk length given to FFT

matchVars ==
    <<filenames, debug, pc, cpus, pool, task, taskOut, result1, result2,
      offsets, max_offset, min_len, score, ret, error>>
winnersVars == <<freq_chunks, max_index>>
chunkVars == <<sample_rate, chunk_size>>
vars == <<matchVars, winnersVars, chunkVars>>

Tasks == {1, 2}

NoReturn == [kind |-> "none", value |-> None]

Pending == [raised |-> None, value |-> None]

MatchIdle ==
    /\ filenames = None /\ debug = FALSE /\ cpus = 0 /\ pool = "none"
    /\ task = [i \in Tasks |-> "none"]
    /\ taskOut = [i \in Tasks |-> Pending]
    /\ result1 = None /\ result2 = None /\ offsets = None
    /\ max_offset = None /\ min_len = None /\ score = None
    /\ ret = NoReturn /\ error = None

WinnersIdle == freq_chunks = None /\ max_index = None
ChunkIdle == sample_rate = None /\ chunk_size = None

Init ==
    /\ filenames \in Files \X Files
    /\ debug \in BOOLEAN
    /\ pc = "cpu_count"
    /\ cpus = 0
    /\ pool = "none"
    /\ task = [i \in Tasks |-> "none"]
    /\ taskOut = [i \in Tasks |-> Pending]
    /\ result1 = None /\ result2 = None /\ offsets = None
    /\ max_offset = None /\ min_len = None /\ score = None
    /\ ret = NoReturn /\ error = None
    /\ WinnersIdle /\ ChunkIdle

(***************************************************************************)
(* Wang.match, step by step                                                *)
(***************************************************************************)
\* cpus = multiprocessing.cpu_count()
CpuCount ==
    /\ pc = "cpu_count"
    /\ \E n \in 1..MaxCpus : cpus' = n
    /\ pc' = "create_pool"
    /\ UNCHANGED <<filenames, debug, pool, task, taskOut, result1, result2,
                   offsets, max_offset, min_len, score, ret, error>>
    /\ UNCHANGED <<winnersVars, chunkVars>>

\* except NotImplementedError: cpus = 1
CpuCountNotImplemented ==
    /\ pc = "cpu_count"
    /\ cpus' = 1
    /\ pc' = "create_pool"
    /\ UNCHANGED <<filenames, debug, pool, task, taskOut, result1, result2,
                   offsets, max_offset, min_len, score, ret, error>>
    /\ UNCHANGED <<winnersVars, chunkVars>>

\* pool = multiprocessing.Pool(cpus), and pool.map queues one task per
\* file name and waits
CreatePool ==
    /\ pc = "create_pool"
    /\ pool' = "open"
    /\ task' = [i \in Tasks |-> "queued"]
    /\ pc' = "map"
    /\ UNCHANGED <<filenames, debug, cpus, taskOut, result1, result2,
                   offsets, max_offset, min_len, score, ret, error>>
    /\ UNCHANGED <<winnersVars, chunkVars>>

Running == {i \in Tasks : task[i] = "running"}

\* a free worker of the pool takes the next task of the queue
TaskStart(i) ==
    /\ pool # "none"
    /\ task[i] = "queued"
    /\ \A j \in Tasks : j < i => task[j] # "queued"
    /\ Cardinality(Running) < cpus
    /\ task' = [task EXCEPT ![i] = "running"]
    /\ UNCHANGED <<filenames, debug, pc, cpus, pool, taskOut, result1, result2,
                   offsets, max_offset, min_len, score, ret, error>>
    /\ UNCHANGED <<winnersVars, chunkVars>>

\* the worker runs _file_fingerprint(filename) and reports the outcome
TaskRun(i) ==
    /\ task[i] = "running"
    /\ LET out == _file_fingerprint(filenames[i])
       IN  /\ taskOut' = [taskOut EXCEPT ![i] = out]
           /\ task' = [task EXCEPT ![i] = IF out.raised = None THEN "done" ELSE "failed"]
    /\ UNCHANGED <<filenames, debug, pc, cpus, pool, result1, result2,
                   offsets, max_offset, min_len, score, ret, error>>
    /\ UNCHANGED <<winnersVars, chunkVars>>

\* a map that has some result
MapReadyAny(t) == \E i \in Tasks : t[i] = "done"

\* pool.map has every result
MapReady(t) == \A i \in Tasks : t[i] = "done"

\* result1, result2 = pool.map(_file_fingerprint, self.filenames)
MapReturn ==
    /\ pc = "map"
    /\ MapReady(task)
    /\ result1' = taskOut[1].value
    /\ result2' = taskOut[2].value
    /\ pc' = "close"
    /\ UNCHANGED <<filenames, debug, cpus, pool, task, taskOut,
                   offsets, max_offset, min_len, score, ret, error>>
    /\ UNCHANGED <<winnersVars, chunkVars>>

\* pool.map re-raises the exception of a failed task; match does not
\* catch it, so nothing after the call runs
MapRaise ==
    /\ pc = "map"
    /\ \E i \in Tasks :
          /\ task[i] = "failed"
          /\ error' = taskOut[i].raised
    /\ pc' = "failed"
    /\ UNCHANGED <<filenames, debug, cpus, pool, task, taskOut, result1, result2,
                   offsets, max_offset, min_len, score, ret>>
    /\ UNCHANGED <<winnersVars, chunkVars>>

\* pool.close()
PoolClose ==
    /\ pc = "close"
    /\ pool' = "closed"
    /\ pc' = "offsets"
    /\ UNCHANGED <<filenames, debug, cpus, task, taskOut, result1, result2,
                   offsets, max_offset, min_len, score, ret, error>>
    /\ UNCHANGED <<winnersVars, chunkVars>>

\* hash1 = result1[1]; hash2 = result2[1]; the loop that fills offsets
BuildOffsets ==
    /\ pc = "offsets"
    /\ LET hash1 == result1[2]
           hash2 == result2[2]
       IN  offsets' = Offsets(hash1, hash2)
    /\ pc' = "max_offset"
    /\ UNCHANGED <<filenames, debug, cpus, pool, task, taskOut, result1, result2,
                   max_offset, min_len, score, ret, error>>
    /\ UNCHANGED <<winnersVars, chunkVars>>

\* file1_len, file2_len, min_len and max_offset
ComputeMaxOffset ==
    /\ pc = "max_offset"
    /\ LET file1_len == result1[1]
           file2_len == result2[1]
       IN  min_len' = MinLen(file1_len, file2_len)
    /\ max_offset' = MaxOffset(offsets)
    /\ pc' = "score"
    /\ UNCHANGED <<filenames, debug, cpus, pool, task, taskOut, result1, result2,
                   offsets, score, ret, error>>
    /\ UNCHANGED <<winnersVars, chunkVars>>

\* score = max_offset / min_len
ComputeScore ==
    /\ pc = "score"
    /\ LET q == Divide(max_offset, min_len)
       IN  IF q.raised = None
           THEN score' = q.value /\ pc' = "return" /\ error' = error
           ELSE score' = score /\ pc' = "failed" /\ error' = q.raised
    /\ UNCHANGED <<filenames, debug, cpus, pool, task, taskOut, result1, result2,
                   offsets, max_offset, min_len, ret>>
    /\ UNCHANGED <<winnersVars, chunkVars>>

\* the two return statements the wrong way round
ReturnValueSwapped(dbg, sc, mo, ml) ==
    IF dbg
    THEN [kind |-> "bool", value |-> Verdict(sc)]
    ELSE [kind |-> "pair", value |-> <<mo, ml>>]

\* what match returns for a score
ReturnValue(dbg, sc, mo, ml) ==
    IF ~dbg
    THEN [kind |-> "bool", value |-> Verdict(sc)]
    ELSE [kind |-> "pair", value |-> <<mo, ml>>]

\* the return statements
Return ==
    /\ pc = "return"
    /\ ret' = ReturnValue(debug, score, max_offset, min_len)
    /\ pc' = "done"
    /\ UNCHANGED <<filenames, debug, cpus, pool, task, taskOut, result1, result2,
                   offsets, max_offset, min_len, score, error>>
    /\ UNCHANGED <<winnersVars, chunkVars>>

Next ==
    \/ CpuCount
    \/ CpuCountNotImplemented
    \/ CreatePool
    \/ \E i \in Tasks : TaskStart(i)
    \/ \E i \in Tasks : TaskRun(i)
    \/ MapReturn
    \/ MapRaise
    \/ PoolClose
    \/ BuildOffsets
    \/ ComputeMaxOffset
    \/ ComputeScore
    \/ Return

Spec == Init /\ [][Next]_vars

(***************************************************************************)
(* _bucket_winners on its own                                              *)
(***************************************************************************)
\* a spectrum of len bins, silent but for bin p of loudness 2 and bin
\* p + d of loudness v
TwoPeaks(len, p, d, v) ==
    [i \in 1..len |-> IF i - 1 = p THEN 2 ELSE IF i - 1 = p + d THEN v ELSE 0]

PeakSpectra ==
    {TwoPeaks(len, p, d, v) :
        len \in UPPER_LIMIT..(UPPER_LIMIT + MaxExtraBins),
        p \in 0..(UPPER_LIMIT - 1), d \in 1..BUCKET_SIZE, v \in 1..3}

WinnersInputs ==
    {<<>>} \cup {<<s>> : s \in PeakSpectra}
           \cup {<<s, t>> : s \in PeakSpectra, t \in SpectrumKinds}

InitWinners ==
    /\ MatchIdle /\ ChunkIdle
    /\ pc = "bucket_winners"
    /\ freq_chunks \in WinnersInputs
    /\ max_index = None

BucketWinners ==
    /\ pc = "bucket_winners"
    /\ max_index' = _bucket_winners(freq_chunks)
    /\ pc' = "winners_done"
    /\ UNCHANGED <<filenames, debug, cpus, pool, task, taskOut, result1, result2,
                   offsets, max_offset, min_len, score, ret, error>>
    /\ UNCHANGED <<freq_chunks, chunkVars>>

NextWinners == BucketWinners

SpecWinners == InitWinners /\ [][NextWinners]_vars

(***************************************************************************)
(* The chunk size of _file_fingerprint on its own                          *)
(***************************************************************************)
CommonRates == {8000, 11025, 16000, 22050, 32000, 44100, 48000, 88200, 96000}

InitChunkSize ==
    /\ MatchIdle /\ WinnersIdle
    /\ pc = "chunk_size"
    /\ sample_rate \in (1..MaxLowRate) \cup CommonRates
    /\ chunk_size = None

ComputeChunkSize ==
    /\ pc = "chunk_size"
    /\ chunk_size' = ChunkSize(sample_rate)
    /\ pc' = "fft"
    /\ UNCHANGED <<filenames, debug, cpus, pool, task, taskOut, result1, result2,
                   offsets, max_offset, min_len, score, ret, error>>
    /\ UNCHANGED <<winnersVars, sample_rate>>

NextChunkSize == ComputeChunkSize

SpecChunkSize == InitChunkSize /\ [][NextChunkSize]_vars

(***************************************************************************)
(* Where match is                                                          *)
(***************************************************************************)
\* the call of pool.map has returned both results
Mapped ==
    \/ pc \in {"close", "offsets", "max_offset", "score", "return", "done"}
    \/ pc = "failed" /\ error = "ZeroDivisionError"

\* the loop that fills offsets has run
OffsetsBuilt ==
    \/ pc \in {"max_offset", "score", "return", "done"}
    \/ pc = "failed" /\ error = "ZeroDivisionError"

\* max_offset and min_len are set
MaxOffsetKnown ==
    \/ pc \in {"score", "return", "done"}
    \/ pc = "failed" /\ error = "ZeroDivisionError"

\* match has returned or raised
Exited == pc \in {"done", "failed"}

\* histogram[d], reading 0 where the histogram has no entry
HistogramAt(h, d) == IF d \in DOMAIN h THEN h[d] ELSE 0

\* the triples (key, c1, c2) of two indexes that lie d chunks apart
Triples(A, B, d) ==
    {t \in UNION {{<<key, c1, c2>> :
                      c1 \in {A[key][i] : i \in 1..Len(A[key])},
                      c2 \in {B[key][j] : j \in 1..Len(B[key])}} :
                  key \in DOMAIN A \cap DOMAIN B} :
        t[2] - t[3] = d}

\* every difference of two chunk numbers of modelled files lies in here
OffsetRange == (0 - MaxSamples)..MaxSamples

RECURSIVE SumOver(_, _)
SumOver(f, S) ==
    IF S = {} THEN 0
    ELSE LET x == CHOOSE y \in S : TRUE IN f[x] + SumOver(f, S \ {x})

\* what match(a, b) ends with, from the two fingerprinting results
MatchOutcome(r1, r2, dbg) ==
    LET mo == MaxOffset(Offsets(r1[2], r2[2]))
        ml == MinLen(r1[1], r2[1])
        q == Divide(mo, ml)
    IN  IF q.raised # None THEN [kind |-> "raised", value |-> q.raised]
        ELSE ReturnValue(dbg, q.value, mo, ml)

\* two outcomes of match are the same
SameOutcome(x, y) == x.kind = y.kind /\ x.value = y.value

(***************************************************************************)
(* C1                                                                      *)
(***************************************************************************)
\* C1: when both files are fingerprinted and the shorter duration is
\* positive, match returns; with debug false it returns the boolean
\* max_offset / min_len > SCORE_THRESHOLD (strictly: a score of exactly
\* 0 gives false), with debug true the pair (max_offset, min_len) built
\* from the same values, max_offset being the highest count of the
\* histogram.
C1_ReturnValue ==
    /\ (pc = "failed" /\ error = "ZeroDivisionError") => min_len[1] = 0
    /\ pc = "done" =>
        /\ min_len[1] > 0
        /\ ~debug =>
            /\ ret.kind = "bool"
            /\ ret.value = (max_offset * min_len[2] > SCORE_THRESHOLD * min_len[1])
            /\ (max_offset = 0) => (ret.value = FALSE)
        /\ debug =>
            /\ ret.kind = "pair"
            /\ ret.value = <<max_offset, min_len>>
            /\ \A d \in DOMAIN offsets : offsets[d] <= ret.value[1]
            /\ (DOMAIN offsets # {}) => \E d \in DOMAIN offsets : offsets[d] = ret.value[1]

\* match has returned false for a score of exactly 0 although both files
\* have chunks, and, elsewhere, the debug pair
C1_Witness ==
    /\ pc = "done" /\ ~debug
    /\ max_offset = 0 /\ ret.value = FALSE
    /\ DOMAIN result1[2] # {} /\ DOMAIN result2[2] # {}

(***************************************************************************)
(* C2                                                                      *)
(***************************************************************************)
\* C2: for the two fingerprint indexes A and B and every integer d,
\* histogram[d] is the number of triples (key, c1, c2) with key in both
\* indexes, c1 in A[key], c2 in B[key] and c1 - c2 = d; a key occurring
\* k1 times in A and k2 times in B adds k1 * k2 observations, a key of
\* one index only adds none.
C2_Histogram ==
    OffsetsBuilt =>
        LET A == result1[2]
            B == result2[2]
            both == DOMAIN A \cap DOMAIN B
        IN  /\ DOMAIN offsets \subseteq OffsetRange
            /\ \A d \in OffsetRange :
                   HistogramAt(offsets, d) = Cardinality(Triples(A, B, d))
            /\ \A d \in DOMAIN offsets : offsets[d] > 0
            /\ SumOver(offsets, DOMAIN offsets)
                 = SumOver([key \in both |-> Len(A[key]) * Len(B[key])], both)

\* a key twice in A and twice in B, and a key of A that B lacks
C2_Witness ==
    /\ OffsetsBuilt
    /\ \E key \in DOMAIN result1[2] \cap DOMAIN result2[2] :
          Len(result1[2][key]) = 2 /\ Len(result2[2][key]) = 2
    /\ \E key \in DOMAIN result1[2] : key \notin DOMAIN result2[2]

(***************************************************************************)
(* C3                                                                      *)
(***************************************************************************)
\* C3: match(b, a) has the max_offset of match(a, b): its histogram is
\* that of match(a, b) with every offset negated and the counts kept;
\* and match(b, a) ends as match(a, b) does, with the same boolean.
C3_Symmetry ==
    /\ MaxOffsetKnown =>
        LET swapped == Offsets(result2[2], result1[2])
        IN  /\ \A d \in OffsetRange :
                   HistogramAt(offsets, d) = HistogramAt(swapped, 0 - d)
            /\ max_offset = MaxOffset(swapped)
    /\ (Mapped /\ Exited /\ ~debug) =>
        LET there == MatchOutcome(result1, result2, debug)
            back == MatchOutcome(result2, result1, debug)
        IN  /\ SameOutcome(there, back)
            /\ pc = "done" => SameOutcome(ret, there)
            /\ pc = "failed" => SameOutcome(there, [kind |-> "raised", value |-> error])

\* two different files matched, file 1's chunks later than file 2's
C3_Witness ==
    /\ pc = "done" /\ ~debug
    /\ filenames[1] # filenames[2]
    /\ ret.value = TRUE
    /\ 0 \notin DOMAIN offsets
    /\ \E d \in DOMAIN offsets : d > 0 /\ offsets[d] = max_offset
    /\ result1[1] # result2[1]

(***************************************************************************)
(* C4                                                                      *)
(***************************************************************************)
\* the file matched against itself
SelfMatch == filenames[1] = filenames[2]

\* the number of chunks of file i
Chunks(i) == Len(filenames[i].series)

\* C4 as stated: for every file f that can be fingerprinted, matching f
\* against itself gives max_offset = the number of chunks of f, and
\* match(f, f) returns true.
C4_Original ==
    (SelfMatch /\ Mapped /\ Exited /\ ~debug) =>
        /\ pc = "done"
        /\ max_offset = Chunks(1)
        /\ ret.value = TRUE

\* C4, amended: matching f against itself gives max_offset = the number
\* of chunks of f; if f has a chunk the peak is at offset 0 and every
\* other offset has a lower count.  match(f, f) returns true exactly
\* when f has a positive duration and at least one chunk: with a
\* positive duration and no chunk it returns false, with a duration of
\* 0 it raises ZeroDivisionError.
C4_SelfMatch ==
    /\ (SelfMatch /\ MaxOffsetKnown) =>
        /\ max_offset = Chunks(1)
        /\ Chunks(1) > 0 =>
            /\ HistogramAt(offsets, 0) = Chunks(1)
            /\ \A d \in DOMAIN offsets : d # 0 => offsets[d] < Chunks(1)
    /\ (SelfMatch /\ Mapped /\ Exited) =>
        /\ (pc = "failed") = (filenames[1].total_samples = 0)
        /\ (pc = "done" /\ ~debug) => (ret.value = (Chunks(1) > 0))

\* a file of several chunks, two of them with the same fingerprint,
\* was matched against itself and match returned true
C4_Witness ==
    /\ SelfMatch /\ pc = "done" /\ ~debug
    /\ Chunks(1) >= 3
    /\ Cardinality(DOMAIN result1[2]) = 2
    /\ ret.value = TRUE

(***************************************************************************)
(* C5                                                                      *)
(***************************************************************************)
\* the two indexes have no key in common
NoSharedKey == DOMAIN result1[2] \cap DOMAIN result2[2] = {}

\* C5 as stated: for every pair of files whose indexes have no key in
\* common the histogram is empty, max_offset is 0, the score is 0 and
\* match with debug false returns false.
C5_Original ==
    (Mapped /\ Exited /\ ~debug /\ NoSharedKey) =>
        /\ pc = "done"
        /\ DOMAIN offsets = {}
        /\ max_offset = 0
        /\ score[1] = 0
        /\ ret.value = FALSE

\* C5, amended: for every pair of files whose indexes have no key in
\* common the histogram is empty and max_offset is 0; if the shorter
\* duration is positive the score is 0 and match with debug false
\* returns false (with a duration of 0 the division raises instead).
C5_NoSharedKey ==
    /\ (OffsetsBuilt /\ NoSharedKey) => DOMAIN offsets = {}
    /\ (MaxOffsetKnown /\ NoSharedKey) => max_offset = 0
    /\ (MaxOffsetKnown /\ Exited /\ NoSharedKey /\ min_len[1] > 0) =>
        /\ pc = "done"
        /\ score[1] = 0
        /\ ~debug => (ret.kind = "bool" /\ ret.value = FALSE)

\* two files, each with chunks, sharing no fingerprint: match returned false
C5_Witness ==
    /\ pc = "done" /\ ~debug
    /\ DOMAIN result1[2] # {} /\ DOMAIN result2[2] # {}
    /\ NoSharedKey
    /\ ret.value = FALSE

(***************************************************************************)
(* C6                                                                      *)
(***************************************************************************)
\* a / b rounded to the nearest integer, for positive a and b
RoundDiv(a, b) == (2 * a + b) \div (2 * b)

\* C6 as stated: the chunk length is
\* round(NORMAL_CHUNK_SIZE * NORMAL_SAMPLE_RATE / sample_rate), an
\* integer >= 1.
C6_Original ==
    pc = "fft" =>
        /\ chunk_size = RoundDiv(NORMAL_CHUNK_SIZE * NORMAL_SAMPLE_RATE, sample_rate)
        /\ chunk_size >= 1

\* C6, amended: the chunk length is
\* NORMAL_CHUNK_SIZE * sample_rate / NORMAL_SAMPLE_RATE rounded down to
\* an integer; it is >= 0, and >= 1 exactly when
\* sample_rate >= NORMAL_SAMPLE_RATE / NORMAL_CHUNK_SIZE.
C6_ChunkSize ==
    pc = "fft" =>
        /\ chunk_size \in Nat
        /\ chunk_size * NORMAL_SAMPLE_RATE <= NORMAL_CHUNK_SIZE * sample_rate
        /\ NORMAL_CHUNK_SIZE * sample_rate < (chunk_size + 1) * NORMAL_SAMPLE_RATE
        /\ (chunk_size >= 1) = (sample_rate * NORMAL_CHUNK_SIZE >= NORMAL_SAMPLE_RATE)

\* at 48000 Hz the chunk is 1114 samples: 1114.56 rounded down
C6_Witness == pc = "fft" /\ sample_rate = 48000 /\ chunk_size = 1114

(***************************************************************************)
(* C7                                                                      *)
(***************************************************************************)
\* C7: when the shorter duration is 0, match fails with
\* DegenerateInputError before any division and returns nothing.
C7_DegenerateInput ==
    (MaxOffsetKnown /\ Exited /\ min_len[1] = 0) =>
        /\ pc = "failed"
        /\ error = "DegenerateInputError"
        /\ ret.kind = "none"

(***************************************************************************)
(* C8                                                                      *)
(***************************************************************************)
\* C8: on every exit path of match, the path of a failed task included,
\* the pool match created is released when match returns or raises.
C8_PoolReleased == Exited => pool = "closed"

(***************************************************************************)
(* C9                                                                      *)
(***************************************************************************)
\* C9: in every interleaving of the two tasks, the histogram is built
\* and the score computed only after both results are there, from those
\* two results; if a task fails match raises that failure and neither
\* builds a histogram nor returns.
C9_Barrier ==
    /\ Mapped =>
        /\ \A i \in Tasks : task[i] = "done"
        /\ taskOut[1].value = result1
        /\ taskOut[2].value = result2
    /\ (\E i \in Tasks : task[i] = "failed") =>
        /\ pc \in {"map", "failed"}
        /\ ret.kind = "none"
        /\ offsets = None /\ max_offset = None /\ score = None
        /\ pc = "failed" =>
              \E i \in Tasks : task[i] = "failed" /\ error = taskOut[i].raised

\* file 2 is fingerprinted, file 1 is not yet, and match waits in pool.map
C9_Witness ==
    /\ pc = "map" /\ cpus = 2
    /\ task[2] = "done" /\ task[1] = "running"

\* match raised the failure of task 1 while task 2 had not yet run
C9_WitnessFailure ==
    /\ pc = "failed" /\ task[1] = "failed" /\ task[2] \in {"queued", "running"}

(***************************************************************************)
(* C10                                                                     *)
(***************************************************************************)
\* the bins of sub-band b
SubBand(b) == (b * BUCKET_SIZE)..((b + 1) * BUCKET_SIZE - 1)

\* C10: for spectra of at least UPPER_LIMIT bins, _bucket_winners gives
\* one fingerprint per spectrum, in the order of the spectra; element b
\* of a fingerprint is the lowest bin of sub-band b whose magnitude is
\* the maximum of that sub-band, so it lies in the sub-band.
C10_BucketWinners ==
    pc = "winners_done" =>
        /\ Len(max_index) = Len(freq_chunks)
        /\ \A chunk \in 1..Len(freq_chunks) :
              /\ Len(freq_chunks[chunk]) >= UPPER_LIMIT
              /\ Len(max_index[chunk]) = BUCKETS
              /\ \A b \in 0..(BUCKETS - 1) :
                    LET w == max_index[chunk][b + 1]
                        m == freq_chunks[chunk]
                    IN  /\ w \in SubBand(b)
                        /\ \A i \in SubBand(b) : m[i + 1] <= m[w + 1]
                        /\ \A i \in SubBand(b) : i < w => m[i + 1] < m[w + 1]

\* in the first spectrum, a sub-band other than the lowest has two
\* equally loud bins, and the winner is the lower of them, not the
\* lowest bin of the sub-band; a second spectrum follows
C10_Witness ==
    /\ pc = "winners_done"
    /\ Len(freq_chunks) = 2
    /\ \E b \in 1..(BUCKETS - 1) :
          LET w == max_index[1][b + 1]
              m == freq_chunks[1]
          IN  /\ w > b * BUCKET_SIZE
              /\ \E i \in SubBand(b) : i > w /\ m[i + 1] = m[w + 1]
    /\ max_index[2] # max_index[1]

====
